---- MODULE Spec2Model ----
(***************************************************************************)
(* MySQLCache (django_mysql/cache.py): a cache kept in one MySQL table.    *)
(* Every caller is a thread with its own connection; a call is a short     *)
(* program that samples the client clock, runs one statement against the   *)
(* shared table and interprets the result.  Statements are atomic; the     *)
(* clock samples and the statement of one call are separate steps, so that *)
(* the clock and the other callers can move between them.                  *)
(*                                                                         *)
(* Time: `clock' counts ticks of 1/TicksPerMs millisecond; it stands for   *)
(* time.time() * 1000 = clock / TicksPerMs (a float).  int(...) of that    *)
(* value is clock \div TicksPerMs.  The expires column holds integer       *)
(* milliseconds.                                                           *)
(***************************************************************************)
EXTENDS Integers, Sequences, FiniteSets, TLC

VARIABLES
    table,      \* the rows of the cache table: [cache_key, value, expires]
    clock,      \* the wall clock, in ticks
    pc,         \* pc[c]: where caller c is in its current call
    call,       \* call[c]: the call in progress (name and arguments)
    exp,        \* exp[c]: local `exp' of _base_set / set_many (ms)
    now,        \* now[c]: local `now' (ticks in _base_set, ms elsewhere)
    rows,       \* rows[c]: what the call's SELECT fetched
    cursor,     \* cursor[c]: number of cursors caller c holds open
    insert_id,  \* insert_id[c]: mysql_insert_id() of caller c's connection
    todo,       \* todo[c]: the operations caller c will still invoke
    hist        \* the completed calls, in order of completion

vars == <<table, clock, pc, call, exp, now, rows, cursor, insert_id, todo, hist>>

(***************************************************************************)
(* Bounds of the model.                                                    *)
(***************************************************************************)
NumCallers == 2
MaxClock == 4
TicksPerMs == 2
ColumnBits == 6

Callers == 1..NumCallers

(***************************************************************************)
(* Constants of the program.  The expires column is BIGINT UNSIGNED; its   *)
(* width is scaled down to ColumnBits bits.                                *)
(***************************************************************************)
BIGINT_UNSIGNED_MAX == 2^ColumnBits - 1
FOREVER_TIMEOUT == BIGINT_UNSIGNED_MAX \div 2
MaxKeyLen == 250
DidNotInsert == 444

(***************************************************************************)
(* Inputs.  A key is the string make_key returned, known by its name and   *)
(* its length.  A timeout is None or a number of ticks (seconds * 1000 *   *)
(* TicksPerMs).                                                            *)
(***************************************************************************)
KeyA == [name |-> "a", len |-> 1]
KeyB == [name |-> "b", len |-> 250]
KeyL == [name |-> "L", len |-> 251]
NoKey == [name |-> "", len |-> 0]
ValidKeys == {KeyA, KeyB}
Keys == {KeyA, KeyB, KeyL}
Values == {1, 2}
TimeoutNone == [isNone |-> TRUE, ticks |-> 0]
TimeoutOf(n) == [isNone |-> FALSE, ticks |-> n]
Timeouts == {TimeoutNone, TimeoutOf(1)}

EmptyMap == [k \in {} |-> 0]
Maps(ks, vs) == UNION {[d -> vs] : d \in (SUBSET ks) \ {{}}}

NoCall == [name |-> "", key |-> NoKey, keys |-> {}, value |-> 0,
           data |-> EmptyMap, timeout |-> TimeoutNone]
KeyCall(n, k) == [NoCall EXCEPT !.name = n, !.key = k]
KeysCall(n, ks) == [NoCall EXCEPT !.name = n, !.keys = ks]
WriteCall(n, k, v, t) == [NoCall EXCEPT !.name = n, !.key = k, !.value = v, !.timeout = t]
SetManyCall(d, t) == [NoCall EXCEPT !.name = "set_many", !.data = d, !.timeout = t]
ClearCall == [NoCall EXCEPT !.name = "clear"]

CallKeys(cl) ==
    IF cl.name \in {"get_many", "delete_many"} THEN cl.keys
    ELSE IF cl.name = "set_many" THEN DOMAIN cl.data
    ELSE IF cl.name = "clear" THEN {}
    ELSE {cl.key}

(***************************************************************************)
(* What a call gives back.                                                 *)
(***************************************************************************)
RetNone == [kind |-> "None", flag |-> FALSE, val |-> 0, map |-> EmptyMap]
RetBool(b) == [RetNone EXCEPT !.kind = "bool", !.flag = b]
RetValue(v) == [RetNone EXCEPT !.kind = "value", !.val = v]
RetDefault == [RetNone EXCEPT !.kind = "default"]
RetMap(m) == [RetNone EXCEPT !.kind = "map", !.map = m]
Raise(e) == [RetNone EXCEPT !.kind = e]
Exceptions == {"ValueError", "DecodeError", "StoreError"}
Raised(r) == r.kind \in Exceptions

(***************************************************************************)
(* Codec: pickle.dumps / pickle.loads.                                     *)
(***************************************************************************)
_encode(v) == <<"pickle", v>>
_decode(blob) ==
    IF blob[1] = "pickle" THEN RetValue(blob[2]) ELSE Raise("DecodeError")

\* Mutant of validate_key: the length ceiling off by one.
validate_key_OffByOne(k) == ~(k.len >= MaxKeyLen)

(***************************************************************************)
(* validate_key: TRUE when the key passes, FALSE when ValueError is raised.*)
(***************************************************************************)
validate_key(k) == ~(k.len > MaxKeyLen)

(***************************************************************************)
(* Clock conversions.                                                      *)
(***************************************************************************)
NowMs(t) == t \div TicksPerMs

\* Mutant of get_backend_timeout: None is taken as a timeout of zero.
get_backend_timeout_NoneIsZero(timeout, t) ==
    IF timeout.isNone THEN t \div TicksPerMs
    ELSE (t + timeout.ticks) \div TicksPerMs

get_backend_timeout(timeout, t) ==
    IF timeout.isNone THEN FOREVER_TIMEOUT
    ELSE (t + timeout.ticks) \div TicksPerMs

(***************************************************************************)
(* The statements, as functions of the table.  cache_key is the table's    *)
(* unique key: INSERT ... ON DUPLICATE KEY UPDATE inserts the row when no  *)
(* row has the key and otherwise updates the row that has it.              *)
(***************************************************************************)
Row(k, blob, e) == [cache_key |-> k, value |-> blob, expires |-> e]

\* Mutant of Conflicts: no row ever conflicts, every statement inserts.
Conflicts_Never(tbl, k) == {}

Conflicts(tbl, k) == {r \in tbl : r.cache_key = k}

\* SELECT value, expires FROM t WHERE cache_key = k
_get_query(tbl, k) == {r \in tbl : r.cache_key = k}

\* SELECT cache_key, value, expires FROM t WHERE cache_key IN ks
_get_many_query(tbl, ks) == {r \in tbl : r.cache_key \in ks}

\* Mutant of _set_query: INSERT IGNORE, a conflicting row is kept.
_set_query_InsertIgnore(tbl, k, blob, e) ==
    IF Conflicts(tbl, k) = {} THEN tbl \cup {Row(k, blob, e)} ELSE tbl

\* One value tuple of _set_many_query: value=VALUES(value), expires=VALUES(expires)
_set_query(tbl, k, blob, e) ==
    IF Conflicts(tbl, k) = {}
    THEN tbl \cup {Row(k, blob, e)}
    ELSE {IF r.cache_key = k THEN Row(k, blob, e) ELSE r : r \in tbl}

\* Mutant of _set_many_query: only one value tuple of the batch is stored.
_set_many_query_OneTuple(tbl, data, e) ==
    IF DOMAIN data = {} THEN tbl
    ELSE LET k == CHOOSE x \in DOMAIN data : TRUE
         IN _set_query(tbl, k, _encode(data[k]), e)

\* _set_many_query with one value tuple per key of data, all with expiry e
RECURSIVE _set_many_query(_, _, _)
_set_many_query(tbl, data, e) ==
    IF DOMAIN data = {} THEN tbl
    ELSE LET k == CHOOSE x \in DOMAIN data : TRUE
             rest == [x \in (DOMAIN data) \ {k} |-> data[x]]
         IN _set_many_query(_set_query(tbl, k, _encode(data[k]), e), rest, e)

\* Mutants of AddSeesLive: the comparison reversed; any row blocks the add.
AddSeesLive_Reversed(r, nw) == r.expires * TicksPerMs < nw
AddSeesLive_Always(r, nw) == TRUE

\* expires > @tmp_now, where @tmp_now is the float `now' (nw ticks)
AddSeesLive(r, nw) == r.expires * TicksPerMs > nw

\* Mutant of _add_query: value=VALUES(value) without the IF.
_add_query_OverwritesValue(tbl, k, blob, e, nw) ==
    IF Conflicts(tbl, k) = {}
    THEN [table |-> tbl \cup {Row(k, blob, e)}, insert_id |-> 0]
    ELSE [table |->
            {IF r.cache_key = k
             THEN Row(k, blob,
                      IF r.expires * TicksPerMs > nw THEN r.expires ELSE e)
             ELSE r : r \in tbl},
          insert_id |->
            IF \E r \in Conflicts(tbl, k) : r.expires * TicksPerMs > nw
            THEN DidNotInsert ELSE 0]

\* Mutant of _add_query: an expired row takes the new value and keeps its
\* own expires.
_add_query_KeepsExpires(tbl, k, blob, e, nw) ==
    IF Conflicts(tbl, k) = {}
    THEN [table |-> tbl \cup {Row(k, blob, e)}, insert_id |-> 0]
    ELSE [table |->
            {IF r.cache_key = k
             THEN Row(k,
                      IF r.expires * TicksPerMs > nw THEN r.value ELSE blob,
                      r.expires)
             ELSE r : r \in tbl},
          insert_id |->
            IF \E r \in Conflicts(tbl, k) : r.expires * TicksPerMs > nw
            THEN DidNotInsert ELSE 0]

\* _add_query: the table after the statement and the insert id it reports
_add_query(tbl, k, blob, e, nw) ==
    IF Conflicts(tbl, k) = {}
    THEN [table |-> tbl \cup {Row(k, blob, e)}, insert_id |-> 0]
    ELSE [table |->
            {IF r.cache_key = k
             THEN Row(k,
                      IF AddSeesLive(r, nw) THEN r.value ELSE blob,
                      IF AddSeesLive(r, nw) THEN r.expires ELSE e)
             ELSE r : r \in tbl},
          insert_id |->
            IF \E r \in Conflicts(tbl, k) : AddSeesLive(r, nw)
            THEN DidNotInsert ELSE 0]

\* Mutant of _delete_query: the WHERE clause negated.
_delete_query_Negated(tbl, k) == {r \in tbl : r.cache_key = k}

\* DELETE FROM t WHERE cache_key = k
_delete_query(tbl, k) == {r \in tbl : r.cache_key # k}

\* DELETE FROM t WHERE cache_key IN ks
_delete_many_query(tbl, ks) == {r \in tbl : r.cache_key \notin ks}

\* SELECT cache_key FROM t WHERE cache_key = k and expires > nw
_has_key_query(tbl, k, nw) == {r \in tbl : r.cache_key = k /\ r.expires > nw}

\* Mutant of _clear_query: only the rows that can expire are removed.
_clear_query_KeepsForever(tbl) == {r \in tbl : r.expires = FOREVER_TIMEOUT}

\* DELETE FROM t
_clear_query(tbl) == {}

(***************************************************************************)
(* The client-side tests of a fetched row.                                 *)
(***************************************************************************)
\* get, line 48, and get_many, line 83: expires < now
ReadSkips(r, nw) == r.expires < nw

\* Mutant of GetManyResults: a row that fails to decode is left out.
GetManyResults_SkipsUndecodable(rs, nw) ==
    LET kept == {r \in rs : r.expires >= nw /\ r.value[1] = "pickle"}
    IN {RetMap([k \in {r.cache_key : r \in kept} |->
                  (CHOOSE r \in kept : r.cache_key = k).value[2]])}

\* The dictionaries get_many can build from the fetched rows rs at `now' nw:
\* every row that is not skipped is decoded and stored under its key.
GetManyResults(rs, nw) ==
    LET kept == {r \in rs : ~ReadSkips(r, nw)}
        dom == {r.cache_key : r \in kept}
    IN IF \E r \in kept : _decode(r.value).kind # "value"
       THEN {Raise("DecodeError")}
       ELSE {RetMap(m) : m \in
               {f \in [dom -> {_decode(r.value).val : r \in kept}] :
                  \A k \in dom : \E r \in kept :
                     r.cache_key = k /\ _decode(r.value).val = f[k]}}

(***************************************************************************)
(* Steps of a call.                                                        *)
(***************************************************************************)
\* Mutant of Connection: all callers share one connection.
Connection_Shared(c) == 1

\* connections[db] is the connection of the calling thread: each caller has
\* its own, and insert_id[n] is the value mysql_insert_id() reports on
\* connection n, set by the last INSERT statement run on it.
Connection(c) == c

Entry(c, cl, e, nw, rs, r) ==
    [caller |-> c, call |-> cl, exp |-> e, now |-> nw, rows |-> rs,
     ret |-> r, at |-> clock]

\* Mutant of Finish: an exception leaves the cursor of the call open.
Finish_LeaksOnRaise(c, nw, rs, r) ==
    /\ hist' = Append(hist, Entry(c, call[c], exp[c], nw, rs, r))
    /\ pc' = [pc EXCEPT ![c] = "idle"]
    /\ call' = [call EXCEPT ![c] = NoCall]
    /\ exp' = [exp EXCEPT ![c] = 0]
    /\ now' = [now EXCEPT ![c] = 0]
    /\ rows' = [rows EXCEPT ![c] = {}]
    /\ cursor' = IF Raised(r) THEN cursor ELSE [cursor EXCEPT ![c] = 0]

\* The call of caller c returns (or raises) r.
Finish(c, nw, rs, r) ==
    /\ hist' = Append(hist, Entry(c, call[c], exp[c], nw, rs, r))
    /\ pc' = [pc EXCEPT ![c] = "idle"]
    /\ call' = [call EXCEPT ![c] = NoCall]
    /\ exp' = [exp EXCEPT ![c] = 0]
    /\ now' = [now EXCEPT ![c] = 0]
    /\ rows' = [rows EXCEPT ![c] = {}]
    /\ cursor' = [cursor EXCEPT ![c] = 0]

FirstStep(n) ==
    CASE n = "get" -> "get_select"
      [] n = "get_many" -> "get_many_select"
      [] n = "set" -> "set_execute"
      [] n = "add" -> "add_now"
      [] n = "set_many" -> "set_many_execute"
      [] n = "delete" -> "delete_execute"
      [] n = "delete_many" -> "delete_many_execute"
      [] n = "has_key" -> "has_key_select"
      [] n = "clear" -> "clear_execute"

\* Caller c invokes cl: the code of the operation up to its cursor.
\* validate_key raises before any cursor is opened; set and add compute exp
\* after validating (lines 100, 109), set_many before (lines 169, 176),
\* has_key samples now after validating (lines 219, 224).
Invoke(c, cl) ==
    /\ pc[c] = "idle"
    /\ todo[c] # <<>>
    /\ cl.name = Head(todo[c])
    /\ todo' = [todo EXCEPT ![c] = Tail(@)]
    /\ LET bad == \E k \in CallKeys(cl) : ~validate_key(k)
           e == IF cl.name = "set_many" \/ (cl.name \in {"set", "add"} /\ ~bad)
                THEN get_backend_timeout(cl.timeout, clock) ELSE 0
           nw == IF cl.name = "has_key" /\ ~bad THEN NowMs(clock) ELSE 0
       IN IF bad
          THEN /\ hist' = Append(hist, Entry(c, cl, e, nw, {}, Raise("ValueError")))
               /\ UNCHANGED <<pc, call, exp, now>>
          ELSE /\ pc' = [pc EXCEPT ![c] = FirstStep(cl.name)]
               /\ call' = [call EXCEPT ![c] = cl]
               /\ exp' = [exp EXCEPT ![c] = e]
               /\ now' = [now EXCEPT ![c] = nw]
               /\ UNCHANGED hist
    /\ UNCHANGED <<table, clock, rows, cursor, insert_id>>

\* Mutant of GetSelect: the read also deletes the rows of its key that have
\* expired.
GetSelect_DeletesExpired(c) ==
    /\ pc[c] = "get_select"
    /\ rows' = [rows EXCEPT ![c] = _get_query(table, call[c].key)]
    /\ table' = {r \in table :
                   ~(r.cache_key = call[c].key /\ r.expires <= NowMs(clock))}
    /\ pc' = [pc EXCEPT ![c] = "get_return"]
    /\ UNCHANGED <<clock, call, exp, now, cursor, insert_id, todo, hist>>

\* get, lines 38-40: the SELECT inside the cursor block
GetSelect(c) ==
    /\ pc[c] = "get_select"
    /\ rows' = [rows EXCEPT ![c] = _get_query(table, call[c].key)]
    /\ pc' = [pc EXCEPT ![c] = "get_return"]
    /\ UNCHANGED <<table, clock, call, exp, now, cursor, insert_id, todo, hist>>

\* get, lines 42-52: fetchone's row, the clock sample, the test and the decode
GetReturn(c) ==
    /\ pc[c] = "get_return"
    /\ LET nw == NowMs(clock)
       IN IF rows[c] = {}
          THEN Finish(c, 0, rows[c], RetDefault)
          ELSE \E row \in rows[c] :
                 Finish(c, nw, {row},
                        IF ReadSkips(row, nw) THEN RetDefault ELSE _decode(row.value))
    /\ UNCHANGED <<table, clock, insert_id, todo>>

\* get_many, lines 72-77
GetManySelect(c) ==
    /\ pc[c] = "get_many_select"
    /\ rows' = [rows EXCEPT ![c] = _get_many_query(table, call[c].keys)]
    /\ pc' = [pc EXCEPT ![c] = "get_many_return"]
    /\ UNCHANGED <<table, clock, call, exp, now, cursor, insert_id, todo, hist>>

\* get_many, lines 79-90
GetManyReturn(c) ==
    /\ pc[c] = "get_many_return"
    /\ \E r \in GetManyResults(rows[c], NowMs(clock)) :
         Finish(c, NowMs(clock), rows[c], r)
    /\ UNCHANGED <<table, clock, insert_id, todo>>

\* _base_set in mode 'set', lines 113-131; set drops the True it returns
SetExecute(c) ==
    /\ pc[c] = "set_execute"
    /\ table' = _set_query(table, call[c].key, _encode(call[c].value), exp[c])
    /\ insert_id' = [insert_id EXCEPT ![Connection(c)] = 0]
    /\ Finish(c, clock, {}, RetNone)
    /\ UNCHANGED <<clock, todo>>

\* _base_set in mode 'add', lines 113-116: the cursor is opened, now is sampled
AddNow(c) ==
    /\ pc[c] = "add_now"
    /\ cursor' = [cursor EXCEPT ![c] = 1]
    /\ now' = [now EXCEPT ![c] = clock]
    /\ pc' = [pc EXCEPT ![c] = "add_execute"]
    /\ UNCHANGED <<table, clock, call, exp, rows, insert_id, todo, hist>>

\* _base_set in mode 'add', lines 121-128: the statement
AddExecute(c) ==
    /\ pc[c] = "add_execute"
    /\ LET res == _add_query(table, call[c].key, _encode(call[c].value), exp[c], now[c])
       IN /\ table' = res.table
          /\ insert_id' = [insert_id EXCEPT ![Connection(c)] = res.insert_id]
    /\ pc' = [pc EXCEPT ![c] = "add_insert_id"]
    /\ UNCHANGED <<clock, call, exp, now, rows, cursor, todo, hist>>

\* Mutant of AddInsertId: the call looks for its entry in the table when it
\* returns, instead of asking what its own statement did.
AddInsertId_ReadsTable(c) ==
    /\ pc[c] = "add_insert_id"
    /\ Finish(c, now[c], {},
              RetBool(Row(call[c].key, _encode(call[c].value), exp[c]) \in table))
    /\ UNCHANGED <<table, clock, insert_id, todo>>

\* _base_set in mode 'add', lines 132-138
AddInsertId(c) ==
    /\ pc[c] = "add_insert_id"
    /\ Finish(c, now[c], {}, RetBool(insert_id[Connection(c)] # DidNotInsert))
    /\ UNCHANGED <<table, clock, insert_id, todo>>

\* set_many, lines 180-186
SetManyExecute(c) ==
    /\ pc[c] = "set_many_execute"
    /\ table' = _set_many_query(table, call[c].data, exp[c])
    /\ insert_id' = [insert_id EXCEPT ![Connection(c)] = 0]
    /\ Finish(c, 0, {}, RetNone)
    /\ UNCHANGED <<clock, todo>>

\* delete, lines 195-200
DeleteExecute(c) ==
    /\ pc[c] = "delete_execute"
    /\ table' = _delete_query(table, call[c].key)
    /\ insert_id' = [insert_id EXCEPT ![Connection(c)] = 0]
    /\ Finish(c, 0, {}, RetNone)
    /\ UNCHANGED <<clock, todo>>

\* delete_many, lines 210-215
DeleteManyExecute(c) ==
    /\ pc[c] = "delete_many_execute"
    /\ table' = _delete_many_query(table, call[c].keys)
    /\ insert_id' = [insert_id EXCEPT ![Connection(c)] = 0]
    /\ Finish(c, 0, {}, RetNone)
    /\ UNCHANGED <<clock, todo>>

\* has_key, lines 226-232
HasKeySelect(c) ==
    /\ pc[c] = "has_key_select"
    /\ LET found == _has_key_query(table, call[c].key, now[c])
       IN Finish(c, now[c], found, RetBool(found # {}))
    /\ UNCHANGED <<table, clock, insert_id, todo>>

\* clear, lines 237-238
ClearExecute(c) ==
    /\ pc[c] = "clear_execute"
    /\ table' = _clear_query(table)
    /\ insert_id' = [insert_id EXCEPT ![Connection(c)] = 0]
    /\ Finish(c, 0, {}, RetNone)
    /\ UNCHANGED <<clock, todo>>

\* cursor.execute raises (the connection is lost, a lock wait times out, the
\* statement is rejected): the statement has no effect on the table, the
\* exception leaves the with-block, which closes the cursor, and reaches the
\* caller.
StatementSteps ==
    {"get_select", "get_many_select", "set_execute", "add_execute",
     "set_many_execute", "delete_execute", "delete_many_execute",
     "has_key_select", "clear_execute"}

StatementFails(c) ==
    /\ pc[c] \in StatementSteps
    /\ Finish(c, now[c], {}, Raise("StoreError"))
    /\ UNCHANGED <<table, clock, insert_id, todo>>

\* Time passes.
Tick ==
    /\ clock < MaxClock
    /\ clock' = clock + 1
    /\ UNCHANGED <<table, pc, call, exp, now, rows, cursor, insert_id, todo, hist>>

(***************************************************************************)
(* The calls a caller can make of an operation, with keys drawn from ks.   *)
(***************************************************************************)
CallsOf(n, ks) ==
    CASE n \in {"get", "has_key", "delete"} -> {KeyCall(n, k) : k \in ks}
      [] n \in {"set", "add"} ->
           {WriteCall(n, k, v, t) : k \in ks, v \in Values, t \in Timeouts}
      [] n \in {"get_many", "delete_many"} ->
           {KeysCall(n, s) : s \in (SUBSET ks) \ {{}}}
      [] n = "set_many" ->
           {SetManyCall(d, t) : d \in Maps(ks, Values), t \in Timeouts}
      [] n = "clear" -> {ClearCall}

Operations ==
    {"get", "get_many", "set", "add", "set_many", "delete", "delete_many",
     "has_key", "clear"}

AllCalls(ks) == UNION {CallsOf(n, ks) : n \in Operations}

\* The state before any call, with the rows tbl in the table.
InitFrom(td, tbl) ==
    /\ table = tbl
    /\ clock = 0
    /\ pc = [c \in Callers |-> "idle"]
    /\ call = [c \in Callers |-> NoCall]
    /\ exp = [c \in Callers |-> 0]
    /\ now = [c \in Callers |-> 0]
    /\ rows = [c \in Callers |-> {}]
    /\ cursor = [c \in Callers |-> 0]
    /\ insert_id = [c \in Callers |-> 0]
    /\ todo = td
    /\ hist = <<>>

InitWith(td) == InitFrom(td, {})

\* Caller 1 runs the script s, the other callers make no call.
Alone(s) == [c \in Callers |-> IF c = 1 THEN s ELSE <<>>]

(***************************************************************************)
(* Spec: one caller writes a key and then makes one call of any operation, *)
(* with any keys, the over-long key included.                              *)
(***************************************************************************)
Scripts == {<<"set", n>> : n \in Operations}

Init == \E s \in Scripts : InitWith(Alone(s))

Next ==
    \/ Tick
    \/ \E c \in Callers :
         \/ \E cl \in AllCalls(Keys) : Invoke(c, cl)
         \/ GetSelect(c)
         \/ GetReturn(c)
         \/ GetManySelect(c)
         \/ GetManyReturn(c)
         \/ SetExecute(c)
         \/ AddNow(c)
         \/ AddExecute(c)
         \/ AddInsertId(c)
         \/ SetManyExecute(c)
         \/ DeleteExecute(c)
         \/ DeleteManyExecute(c)
         \/ HasKeySelect(c)
         \/ ClearExecute(c)

Spec == Init /\ [][Next]_vars

(***************************************************************************)
(* SpecPoint: one caller runs set, add and get calls on valid keys.        *)
(***************************************************************************)
ScriptsPoint ==
    { <<"set", "add", "get">>,
      <<"add", "add", "get">>,
      <<"set", "set", "get">> }

InitPoint == \E s \in ScriptsPoint : InitWith(Alone(s))

NextPoint ==
    \/ Tick
    \/ \E c \in Callers :
         \/ \E cl \in AllCalls(ValidKeys) : Invoke(c, cl)
         \/ GetSelect(c)
         \/ GetReturn(c)
         \/ SetExecute(c)
         \/ AddNow(c)
         \/ AddExecute(c)
         \/ AddInsertId(c)

SpecPoint == InitPoint /\ [][NextPoint]_vars

(***************************************************************************)
(* SpecReads: one caller writes and then reads with get, get_many and      *)
(* has_key.                                                                *)
(***************************************************************************)
ScriptsReads ==
    { <<"set", "get", "has_key">>,
      <<"set", "has_key", "get_many">>,
      <<"set", "set_many", "get_many">>,
      <<"set_many", "get_many">> }

InitReads == \E s \in ScriptsReads : InitWith(Alone(s))

NextReads ==
    \/ Tick
    \/ \E c \in Callers :
         \/ \E cl \in AllCalls(ValidKeys) : Invoke(c, cl)
         \/ GetSelect(c)
         \/ GetReturn(c)
         \/ GetManySelect(c)
         \/ GetManyReturn(c)
         \/ SetExecute(c)
         \/ SetManyExecute(c)
         \/ HasKeySelect(c)

SpecReads == InitReads /\ [][NextReads]_vars

(***************************************************************************)
(* SpecRemove: one caller writes, removes with delete, delete_many or      *)
(* clear, and then reads or adds.                                          *)
(***************************************************************************)
ScriptsRemove ==
    { <<"set", "delete", "delete">>,
      <<"set", "delete", "get">>,
      <<"set", "delete", "add">>,
      <<"delete", "add">>,
      <<"set", "delete_many", "delete_many">>,
      <<"set", "delete_many", "get">>,
      <<"set", "delete_many", "add">>,
      <<"set", "clear", "get_many">>,
      <<"set_many", "clear", "has_key">>,
      <<"add", "clear", "add">> }

InitRemove == \E s \in ScriptsRemove : InitWith(Alone(s))

NextRemove ==
    \/ Tick
    \/ \E c \in Callers :
         \/ \E cl \in AllCalls(ValidKeys) : Invoke(c, cl)
         \/ GetSelect(c)
         \/ GetReturn(c)
         \/ GetManySelect(c)
         \/ GetManyReturn(c)
         \/ SetExecute(c)
         \/ AddNow(c)
         \/ AddExecute(c)
         \/ AddInsertId(c)
         \/ SetManyExecute(c)
         \/ DeleteExecute(c)
         \/ DeleteManyExecute(c)
         \/ HasKeySelect(c)
         \/ ClearExecute(c)

SpecRemove == InitRemove /\ [][NextRemove]_vars

(***************************************************************************)
(* SpecAddRace: every caller makes one add call on the same key, which no  *)
(* row holds, each supplying its own value.                                *)
(***************************************************************************)
RaceCalls(c) == {WriteCall("add", KeyA, c, t) : t \in Timeouts}

InitAddRace == InitWith([c \in Callers |-> <<"add">>])

NextAddRace ==
    \/ Tick
    \/ \E c \in Callers :
         \/ \E cl \in RaceCalls(c) : Invoke(c, cl)
         \/ AddNow(c)
         \/ AddExecute(c)
         \/ AddInsertId(c)

SpecAddRace == InitAddRace /\ [][NextAddRace]_vars

(***************************************************************************)
(* Properties.  hist[i] is the i-th completed call: its arguments, the exp *)
(* and now it computed, the rows it fetched, what it returned and the      *)
(* clock when it returned.                                                 *)
(***************************************************************************)
Name(i) == hist[i].call.name
IsWrite(i, k) ==
    \/ Name(i) \in {"set", "add"} /\ hist[i].call.key = k
    \/ Name(i) = "set_many" /\ k \in DOMAIN hist[i].call.data

\* C1.  Concurrent add calls on one absent key, none of whose entries expires
\* during the race (every supplied expiry is later than every call's now):
\* once all have returned, exactly one has returned true, the others false,
\* and the table holds the value and expiry of the call that returned true.
RaceWinners == {i \in DOMAIN hist : hist[i].ret.flag}
RaceDone == Len(hist) = NumCallers
RaceEntriesLive ==
    \A i, j \in DOMAIN hist : hist[i].exp * TicksPerMs > hist[j].now

C2_FirstRow == Row(hist[1].call.key, _encode(hist[1].call.value), hist[1].exp)
C2_AddRow == Row(hist[2].call.key, _encode(hist[2].call.value), hist[2].exp)
C2_OccupiedLive ==
    /\ hist[1].call.key = hist[2].call.key
    /\ hist[1].exp * TicksPerMs > hist[2].now

C2_AddRejectsOnlyLive ==
    /\ (Len(hist) >= 1 /\ Name(1) = "add") => hist[1].ret = RetBool(TRUE)
    /\ (Len(hist) >= 2 /\ Name(1) \in {"set", "add"} /\ Name(2) = "add") =>
         IF C2_OccupiedLive
         THEN /\ hist[2].ret = RetBool(FALSE)
              /\ table = {C2_FirstRow}
         ELSE /\ hist[2].ret = RetBool(TRUE)
              /\ C2_AddRow \in table
              /\ Conflicts(table, hist[2].call.key) = {C2_AddRow}

C2_Witness ==
    /\ Len(hist) >= 2
    /\ Name(1) = "set"
    /\ Name(2) = "add"
    /\ ~hist[1].call.timeout.isNone
    /\ hist[1].call.value # hist[2].call.value
    /\ C2_OccupiedLive
    /\ hist[2].ret = RetBool(FALSE)

\* C3.  set(k, v1, timeout), then add(k, v2) whose now is at or past the
\* expiry of the entry set stored, the expired row being still in the table:
\* the add returns true and the row becomes add's pair; a get(k) that follows
\* while add's entry is not expired returns v2.
C3_Case ==
    /\ Len(hist) >= 2
    /\ Name(1) = "set"
    /\ Name(2) = "add"
    /\ hist[1].call.key = hist[2].call.key
    /\ hist[1].exp * TicksPerMs <= hist[2].now

C3_AddAfterExpiry ==
    C3_Case =>
        /\ hist[2].ret = RetBool(TRUE)
        /\ table = {C2_AddRow}
        /\ (/\ Len(hist) = 3
            /\ Name(3) = "get"
            /\ hist[3].call.key = hist[2].call.key
            /\ hist[2].exp * TicksPerMs > hist[3].at)
           => hist[3].ret = RetValue(hist[2].call.value)

C3_Witness ==
    /\ C3_Case
    /\ Len(hist) = 3
    /\ hist[1].call.value # hist[2].call.value
    /\ hist[3].ret = RetValue(hist[2].call.value)

\* C4.  set(k, v, None) followed by get(k) returns v, whatever the earlier
\* calls left under k (no row, a live row or an expired row).
C4_SetThenGet ==
    \A i \in DOMAIN hist :
        (/\ i > 1
         /\ Name(i - 1) = "set"
         /\ hist[i - 1].call.timeout.isNone
         /\ Name(i) = "get"
         /\ hist[i].call.key = hist[i - 1].call.key)
        => hist[i].ret = RetValue(hist[i - 1].call.value)

C4_Witness ==
    /\ Len(hist) = 3
    /\ Name(1) = "set"
    /\ Name(2) = "set"
    /\ Name(3) = "get"
    /\ hist[1].call.key = hist[2].call.key
    /\ hist[2].call.key = hist[3].call.key
    /\ hist[1].call.value # hist[2].call.value
    /\ hist[1].exp * TicksPerMs < hist[2].at
    /\ hist[2].call.timeout.isNone
    /\ hist[3].ret = RetValue(hist[2].call.value)

\* A read call that reports key k as missing.
Misses(i, k) ==
    CASE Name(i) = "get" -> hist[i].ret = RetDefault
      [] Name(i) = "has_key" -> hist[i].ret = RetBool(FALSE)
      [] Name(i) = "get_many" ->
           hist[i].ret.kind = "map" /\ k \notin DOMAIN hist[i].ret.map
      [] OTHER -> FALSE

Reads(i, k) ==
    \/ Name(i) \in {"get", "has_key"} /\ hist[i].call.key = k
    \/ Name(i) = "get_many" /\ k \in hist[i].call.keys

\* C5.  set(k, v, timeout) with a finite timeout; a later read of k, invoked
\* when the clock is past the entry's expiry (the call before it returned
\* after the stored expiry, and more than the timeout after set ran) with no
\* write to k in between, misses: get returns the default, has_key false,
\* get_many omits k.
C5_ExpiredStaysInvisible ==
    \A i, j \in DOMAIN hist :
        (/\ i < j
         /\ Name(i) = "set"
         /\ ~hist[i].call.timeout.isNone
         /\ Reads(j, hist[i].call.key)
         /\ \A m \in (i + 1)..(j - 1) : ~IsWrite(m, hist[i].call.key)
         /\ hist[j - 1].at > hist[i].exp * TicksPerMs
         /\ hist[j - 1].at > hist[i].now + hist[i].call.timeout.ticks)
        => Misses(j, hist[i].call.key)

\* C6.  A row with expires <= now is absent from every read: get returns the
\* default for it, get_many omits its key, and has_key is false for it.
C6_ExpiredAbsentFromReads ==
    \A j \in DOMAIN hist :
        /\ Name(j) = "get" =>
             \A r \in hist[j].rows :
                 r.expires <= hist[j].now => hist[j].ret = RetDefault
        /\ Name(j) = "get_many" =>
             \A r \in hist[j].rows :
                 r.expires <= hist[j].now => Misses(j, r.cache_key)
        /\ (Name(j) = "has_key" /\ j = Len(hist)) =>
             \A r \in table :
                 (r.cache_key = hist[j].call.key /\ r.expires <= hist[j].now)
                     => Misses(j, r.cache_key)

\* C7.  get_many(keys), the last call made: the keys of the mapping are
\* exactly the requested keys whose row has expires > now, each mapped to the
\* decoded value of its row.
C7_GetManyExactlyLive ==
    (Len(hist) >= 1 /\ Name(Len(hist)) = "get_many") =>
        LET h == hist[Len(hist)]
            live == {r \in table : r.cache_key \in h.call.keys /\ r.expires > h.now}
        IN /\ h.ret.kind = "map"
           /\ DOMAIN h.ret.map = {r.cache_key : r \in live}
           /\ \A r \in live : _encode(h.ret.map[r.cache_key]) = r.value

\* The part of C7 about set_many({a: 1, b: 2}) followed by get_many of those
\* keys and more, before anything expires.
C7_BulkExample ==
    (/\ Len(hist) = 2
     /\ Name(1) = "set_many"
     /\ Name(2) = "get_many"
     /\ hist[1].exp * TicksPerMs > hist[2].at
     /\ DOMAIN hist[1].call.data \subseteq hist[2].call.keys)
    => hist[2].ret = RetMap(hist[1].call.data)

\* C8.  delete and delete_many return normally whether or not the keys are
\* present.  After set and then only deletes, the table is the row set wrote
\* unless one of the deletes named its key, and then it is empty: a delete of
\* an absent key, a second delete included, changes nothing.  A get that
\* follows a delete of its key returns the default, an add returns true.
\* No call in progress has run its statement yet: the table is as the last
\* completed call left it.
NothingPending == \A c \in Callers : pc[c] # "add_insert_id"

Removes(i, k) ==
    \/ Name(i) = "delete" /\ hist[i].call.key = k
    \/ Name(i) = "delete_many" /\ k \in hist[i].call.keys

C8_DeleteIdempotent ==
    /\ \A i \in DOMAIN hist :
         Name(i) \in {"delete", "delete_many"} => hist[i].ret = RetNone
    /\ (/\ Len(hist) >= 1
        /\ Name(1) = "set"
        /\ \A i \in 2..Len(hist) : Name(i) \in {"delete", "delete_many"}
        /\ NothingPending)
       => table = IF \E i \in 2..Len(hist) : Removes(i, hist[1].call.key)
                  THEN {} ELSE {C2_FirstRow}
    /\ (Len(hist) = 1 /\ Name(1) \in {"delete", "delete_many"} /\ NothingPending)
       => table = {}
    /\ \A i \in DOMAIN hist :
         (i > 1 /\ Removes(i - 1, hist[i].call.key)) =>
            /\ Name(i) = "get" => hist[i].ret = RetDefault
            /\ Name(i) = "add" => hist[i].ret = RetBool(TRUE)

C8_Witness ==
    /\ Len(hist) = 3
    /\ Name(1) = "set"
    /\ hist[1].call.timeout.isNone
    /\ Name(2) = "delete"
    /\ Name(3) = "delete"
    /\ hist[2].call.key = hist[1].call.key
    /\ hist[3].call.key = hist[1].call.key
    /\ table = {}

\* C9.  After clear(), whatever set, add or set_many wrote before: the table
\* holds no row until the next write, and the call that follows reports
\* nothing stored: get_many returns the empty mapping, has_key false, add
\* true.
C9_ClearCompletes ==
    \A i \in DOMAIN hist :
        Name(i) = "clear" =>
            /\ hist[i].ret = RetNone
            /\ (i = Len(hist) /\ NothingPending) => table = {}
            /\ i < Len(hist) =>
                 /\ Name(i + 1) = "get_many" => hist[i + 1].ret = RetMap(EmptyMap)
                 /\ Name(i + 1) = "has_key" => hist[i + 1].ret = RetBool(FALSE)
                 /\ Name(i + 1) = "add" => hist[i + 1].ret = RetBool(TRUE)

C9_Witness ==
    /\ Len(hist) = 3
    /\ Name(1) = "set_many"
    /\ hist[1].call.timeout.isNone
    /\ DOMAIN hist[1].call.data = ValidKeys
    /\ Name(2) = "clear"
    /\ Name(3) = "has_key"
    /\ hist[3].ret = RetBool(FALSE)

\* C10.  A call raises ValueError exactly when one of its keys is longer
\* than 250 characters (a key of 250 is accepted).  The step that raises is
\* the invocation itself: it opens no cursor, runs no statement on the
\* connection and leaves the table as it was, so that after set and a call
\* that raised, the table is whatever set left, also for set_many and
\* delete_many given valid and over-long keys together.
RaisedKey(i) == hist[i].ret = Raise("ValueError")
JustRaised(c) ==
    /\ Len(hist) >= 1
    /\ RaisedKey(Len(hist))
    /\ hist[Len(hist)].caller = c

C10_Outcome ==
    /\ \A i \in DOMAIN hist :
         RaisedKey(i) <=> \E k \in CallKeys(hist[i].call) : k.len > 250
    /\ (Len(hist) = 2 /\ ~RaisedKey(1) /\ RaisedKey(2)) =>
         table = {Row(hist[1].call.key, _encode(hist[1].call.value), hist[1].exp)}

C10_ValidateBeforeStore ==
    [][/\ C10_Outcome'
       /\ \A c \in Callers :
            (Len(hist') > Len(hist) /\ JustRaised(c)') =>
               /\ pc[c] = "idle"
               /\ pc'[c] = "idle"
               /\ table' = table
               /\ cursor' = cursor
               /\ insert_id' = insert_id
      ]_vars

C10_Witness ==
    /\ Len(hist) = 2
    /\ ~RaisedKey(1)
    /\ hist[1].call.key = KeyB
    /\ Name(2) = "delete_many"
    /\ hist[2].call.keys = {KeyB, KeyL}
    /\ RaisedKey(2)
    /\ table = {C2_FirstRow}

(***************************************************************************)
(* SpecWriters: every caller makes one write, delete or clear call,        *)
(* concurrently with the other callers.  The single-key calls are on KeyA, *)
(* the bulk calls on both valid keys.  Caller c writes the value c, so     *)
(* that a stored value names the caller that supplied it.                  *)
(***************************************************************************)
WriterOperations ==
    {"set", "add", "set_many", "delete", "delete_many", "clear"}

WriterCalls(c) ==
    {WriteCall(n, KeyA, c, t) : n \in {"set", "add"}, t \in Timeouts}
      \cup {SetManyCall([k \in ValidKeys |-> c], t) : t \in Timeouts}
      \cup {KeyCall("delete", KeyA), KeysCall("delete_many", ValidKeys),
            ClearCall}

\* Two callers make a call of any of the six operations, each further caller
\* a set.
ScriptsWriters(c) ==
    IF c <= 2 THEN {<<n>> : n \in WriterOperations} ELSE {<<"set">>}

InitWriters ==
    \E td \in [Callers -> UNION {ScriptsWriters(c) : c \in Callers}] :
       /\ \A c \in Callers : td[c] \in ScriptsWriters(c)
       /\ InitWith(td)

NextWriters ==
    \/ Tick
    \/ \E c \in Callers :
         \/ \E cl \in WriterCalls(c) : Invoke(c, cl)
         \/ SetExecute(c)
         \/ AddNow(c)
         \/ AddExecute(c)
         \/ AddInsertId(c)
         \/ SetManyExecute(c)
         \/ DeleteExecute(c)
         \/ DeleteManyExecute(c)
         \/ ClearExecute(c)

SpecWriters == InitWriters /\ [][NextWriters]_vars

\* C11.  Under every interleaving of set, add, set_many, delete, delete_many
\* and clear calls of concurrent callers, the table holds at most one row per
\* cache key.
C11_OneRowPerKey ==
    \A r1, r2 \in table : r1.cache_key = r2.cache_key => r1 = r2

\* Two callers have written the same key, the second while the row of the
\* first was stored, and the third kind of statement has run as well.
C11_Witness ==
    /\ Len(hist) = NumCallers
    /\ \E i, j \in DOMAIN hist :
         /\ i < j
         /\ hist[i].caller # hist[j].caller
         /\ Name(i) = "set_many"
         /\ Name(j) \in {"set", "add"}
         /\ hist[j].call.key \in DOMAIN hist[i].call.data
         /\ hist[i].exp # hist[j].exp
    /\ Cardinality(table) = 2

\* C12.  The (value, expires) pair stored for a key is the pair supplied by
\* one single write call: a set or set_many on the key, or an add on it that
\* stored its entry (returned true, or has run its statement and is about to).
SuppliedPairs(k) ==
    {<<_encode(hist[i].call.value), hist[i].exp>> :
       i \in {j \in DOMAIN hist :
                /\ hist[j].call.name \in {"set", "add"}
                /\ hist[j].call.key = k
                /\ hist[j].call.name = "add" => hist[j].ret = RetBool(TRUE)}}
      \cup
    {<<_encode(hist[i].call.data[k]), hist[i].exp>> :
       i \in {j \in DOMAIN hist :
                /\ hist[j].call.name = "set_many"
                /\ k \in DOMAIN hist[j].call.data}}
      \cup
    {<<_encode(call[c].value), exp[c]>> :
       c \in {d \in Callers :
                /\ pc[d] = "add_insert_id"
                /\ call[d].key = k
                /\ insert_id[Connection(d)] # DidNotInsert}}

C12_WholeRow ==
    \A r \in table : <<r.value, r.expires>> \in SuppliedPairs(r.cache_key)

\* An add of one caller has replaced the expired entry another caller set,
\* with a different value and a different expiry.
C12_Witness ==
    /\ Len(hist) = NumCallers
    /\ \E i, j \in DOMAIN hist :
         /\ i < j
         /\ Name(i) = "set"
         /\ Name(j) = "add"
         /\ hist[j].ret = RetBool(TRUE)
         /\ hist[i].exp # hist[j].exp
         /\ hist[i].exp * TicksPerMs <= hist[j].now
         /\ hist[i].at <= hist[j].now
         /\ table = {Row(KeyA, _encode(hist[j].call.value), hist[j].exp)}

(***************************************************************************)
(* SpecBulk: caller 1 makes two set_many calls, caller 2 reads with        *)
(* get_many while they run.  A statement can fail.                         *)
(***************************************************************************)
ScriptsBulk(c) ==
    CASE c = 1 -> <<"set_many", "set_many">>
      [] c = 2 -> <<"get_many">>
      [] OTHER -> <<>>

\* The batches cover both valid keys or one of them, with one value for all
\* keys of a batch and a timeout that lets the entries expire while the calls
\* run; the readers ask for both keys or for the key only the larger batch has.
BulkCalls ==
    {SetManyCall([k \in ks |-> v], TimeoutOf(1)) :
       ks \in {ValidKeys, {KeyA}}, v \in Values}
      \cup {KeysCall("get_many", ks) : ks \in {ValidKeys, {KeyB}}}

InitBulk == InitWith([c \in Callers |-> ScriptsBulk(c)])

NextBulk ==
    \/ Tick
    \/ \E c \in Callers :
         \/ \E cl \in BulkCalls : Invoke(c, cl)
         \/ SetManyExecute(c)
         \/ GetManySelect(c)
         \/ GetManyReturn(c)
         \/ StatementFails(c)

SpecBulk == InitBulk /\ [][NextBulk]_vars

\* C13.  set_many is all-or-nothing.  The table is always the one obtained by
\* applying, in the order of their return, the whole batch of every set_many
\* that returned (every key of data with its new value and the one expiry the
\* call computed) and nothing of a set_many whose statement failed; and the
\* rows a get_many fetches are those of the table after some number of whole
\* batches, never part of one.
BatchRows(i) ==
    {Row(k, _encode(hist[i].call.data[k]), hist[i].exp) :
       k \in DOMAIN hist[i].call.data}

RECURSIVE TableAfter(_)
TableAfter(i) ==
    IF i = 0 THEN {}
    ELSE IF Name(i) = "set_many" /\ hist[i].ret = RetNone
         THEN {r \in TableAfter(i - 1) :
                 r.cache_key \notin DOMAIN hist[i].call.data}
                \cup BatchRows(i)
         ELSE TableAfter(i - 1)

C13_SetManyAllOrNothing ==
    /\ table = TableAfter(Len(hist))
    /\ \A i \in DOMAIN hist :
         (Name(i) = "get_many" /\ ~Raised(hist[i].ret)) =>
            \E j \in 0..(i - 1) :
               hist[i].rows = {r \in TableAfter(j) :
                                 r.cache_key \in hist[i].call.keys}
    /\ \A c \in Callers :
         pc[c] = "get_many_return" =>
            \E j \in 0..Len(hist) :
               rows[c] = {r \in TableAfter(j) : r.cache_key \in call[c].keys}

\* A batch of two keys was stored, a get_many fetched both of its rows, and
\* a second batch on the same keys failed and left both rows as they were.
C13_Witness ==
    /\ Len(hist) = 3
    /\ Name(1) = "set_many"
    /\ hist[1].ret = RetNone
    /\ DOMAIN hist[1].call.data = ValidKeys
    /\ Name(2) = "get_many"
    /\ hist[2].rows = BatchRows(1)
    /\ Name(3) = "set_many"
    /\ hist[3].ret = Raise("StoreError")
    /\ DOMAIN hist[3].call.data = ValidKeys
    /\ hist[3].call.data # hist[1].call.data
    /\ table = BatchRows(1)

\* C14.  get, get_many and has_key never modify the table: the table changes
\* only in the step that runs the statement of a set, add, set_many, delete,
\* delete_many or clear, and the row a set stored is still stored, unchanged,
\* after any reads that follow it, expired or not.
WriteSteps ==
    {"set_execute", "add_execute", "set_many_execute", "delete_execute",
     "delete_many_execute", "clear_execute"}

C14_AfterReads ==
    (/\ Len(hist) >= 1
     /\ Name(1) = "set"
     /\ \A i \in 2..Len(hist) : Name(i) \in {"get", "get_many", "has_key"})
    => table = {C2_FirstRow}

C14_ReadsKeepTable ==
    [][/\ table' # table => \E c \in Callers : pc[c] \in WriteSteps
       /\ C14_AfterReads'
      ]_vars

\* The entry a set stored has expired: get has returned the default for its
\* key and has_key false, and the row is still in the table.
C14_Witness ==
    /\ Len(hist) = 3
    /\ Name(1) = "set"
    /\ Name(2) = "get"
    /\ hist[2].call.key = hist[1].call.key
    /\ hist[2].ret = RetDefault
    /\ Name(3) = "has_key"
    /\ hist[3].call.key = hist[1].call.key
    /\ hist[3].ret = RetBool(FALSE)
    /\ table = {C2_FirstRow}

\* C15.  For a single caller, every read agrees with a reference map with
\* expiry that has applied the caller's earlier calls in order: get(k) returns
\* the value of the most recent write of k when that entry has not expired
\* (its expiry is later than the read's now) and was not deleted or cleared,
\* and the default otherwise; has_key(k) is true and get_many has k under the
\* same condition.
RefPut(m, k, v, e) ==
    {x \in m : x.key # k} \cup {[key |-> k, value |-> v, expires |-> e]}

RECURSIVE RefPutAll(_, _, _)
RefPutAll(m, data, e) ==
    IF DOMAIN data = {} THEN m
    ELSE LET k == CHOOSE x \in DOMAIN data : TRUE
         IN RefPutAll(RefPut(m, k, data[k], e),
                      [x \in (DOMAIN data) \ {k} |-> data[x]], e)

RECURSIVE RefMap(_)
RefMap(i) ==
    IF i = 0 THEN {}
    ELSE LET m == RefMap(i - 1)
             h == hist[i]
         IN CASE Raised(h.ret) -> m
              [] h.call.name = "set" ->
                   RefPut(m, h.call.key, h.call.value, h.exp)
              [] h.call.name = "add" ->
                   IF \E x \in m : /\ x.key = h.call.key
                                   /\ x.expires * TicksPerMs > h.now
                   THEN m
                   ELSE RefPut(m, h.call.key, h.call.value, h.exp)
              [] h.call.name = "set_many" -> RefPutAll(m, h.call.data, h.exp)
              [] h.call.name = "delete" -> {x \in m : x.key # h.call.key}
              [] h.call.name = "delete_many" ->
                   {x \in m : x.key \notin h.call.keys}
              [] h.call.name = "clear" -> {}
              [] OTHER -> m

\* The now of the i-th call, in ms: has_key samples it before its statement,
\* get and get_many when they return.
ReadNow(i) == IF Name(i) = "has_key" THEN hist[i].now ELSE NowMs(hist[i].at)

\* The entries of the reference map a read at `now' nw finds; with atExpiry,
\* get and get_many also find an entry whose expiry equals nw.
RefLive(i, atExpiry) ==
    {x \in RefMap(i - 1) :
       \/ x.expires > ReadNow(i)
       \/ atExpiry /\ Name(i) # "has_key" /\ x.expires = ReadNow(i)}

RefAgrees(atExpiry) ==
    \A i \in DOMAIN hist :
       LET live == RefLive(i, atExpiry)
       IN /\ Name(i) = "get" =>
               hist[i].ret =
                  IF \E x \in live : x.key = hist[i].call.key
                  THEN RetValue((CHOOSE x \in live : x.key = hist[i].call.key).value)
                  ELSE RetDefault
          /\ Name(i) = "has_key" =>
               hist[i].ret = RetBool(\E x \in live : x.key = hist[i].call.key)
          /\ Name(i) = "get_many" =>
               /\ hist[i].ret.kind = "map"
               /\ DOMAIN hist[i].ret.map =
                     {x.key : x \in {y \in live : y.key \in hist[i].call.keys}}
               /\ \A x \in live :
                     x.key \in hist[i].call.keys =>
                        hist[i].ret.map[x.key] = x.value

C15_ReadYourOwnWrite == RefAgrees(FALSE)

\* The reads agree with the reference map in everything but the instant of
\* expiry: they do when the reference map's get and get_many still find an
\* entry whose expiry equals now.
C15_AgreesButAtExpiry == RefAgrees(TRUE)

(***************************************************************************)
(* SpecForever: one caller writes entries, with and without a timeout, and *)
(* then reads them and adds to them while the clock advances.              *)
(***************************************************************************)
ScriptsForever ==
    { <<"set", "get", "add">>,
      <<"set", "add", "has_key">>,
      <<"add", "add", "get">>,
      <<"add", "has_key", "get_many">>,
      <<"set_many", "get_many", "add">> }

InitForever == \E s \in ScriptsForever : InitWith(Alone(s))

NextForever ==
    \/ Tick
    \/ \E c \in Callers :
         \/ \E cl \in AllCalls(ValidKeys) : Invoke(c, cl)
         \/ GetSelect(c)
         \/ GetReturn(c)
         \/ GetManySelect(c)
         \/ GetManyReturn(c)
         \/ SetExecute(c)
         \/ AddNow(c)
         \/ AddExecute(c)
         \/ AddInsertId(c)
         \/ SetManyExecute(c)
         \/ HasKeySelect(c)

SpecForever == InitForever /\ [][NextForever]_vars

\* C16.  An entry written with timeout None is stored with FOREVER_TIMEOUT as
\* its expiry, which is later than every value the clock takes; at every
\* later time, until the key is set again, a get and a get_many of the key
\* return the entry's value, has_key returns true and add returns false.
StoresForever(i, k) ==
    /\ IsWrite(i, k)
    /\ hist[i].call.timeout.isNone
    /\ Name(i) = "add" => hist[i].ret = RetBool(TRUE)

WrittenValue(i, k) ==
    IF Name(i) = "set_many" THEN hist[i].call.data[k] ELSE hist[i].call.value

C16_ForeverEntryStays ==
    /\ FOREVER_TIMEOUT > NowMs(clock)
    /\ \A i, j \in DOMAIN hist : \A k \in ValidKeys :
         (/\ i < j
          /\ StoresForever(i, k)
          /\ \A m \in (i + 1)..(j - 1) :
                ~(Name(m) \in {"set", "set_many"} /\ IsWrite(m, k)))
         => /\ hist[i].exp = FOREVER_TIMEOUT
            /\ (Name(j) = "get" /\ hist[j].call.key = k) =>
                  hist[j].ret = RetValue(WrittenValue(i, k))
            /\ (Name(j) = "get_many" /\ k \in hist[j].call.keys) =>
                  /\ hist[j].ret.kind = "map"
                  /\ k \in DOMAIN hist[j].ret.map
                  /\ hist[j].ret.map[k] = WrittenValue(i, k)
            /\ (Name(j) = "has_key" /\ hist[j].call.key = k) =>
                  hist[j].ret = RetBool(TRUE)
            /\ (Name(j) = "add" /\ hist[j].call.key = k) =>
                  /\ hist[j].ret = RetBool(FALSE)
                  /\ NothingPending =>
                        Row(k, _encode(WrittenValue(i, k)), FOREVER_TIMEOUT)
                           \in table

\* An entry was added without a timeout; when the clock had run to its end,
\* has_key found it, and then get_many returned it.
C16_Witness ==
    /\ Len(hist) = 3
    /\ Name(1) = "add"
    /\ StoresForever(1, KeyB)
    /\ Name(2) = "has_key"
    /\ hist[2].call.key = KeyB
    /\ hist[2].now = NowMs(MaxClock)
    /\ hist[2].ret = RetBool(TRUE)
    /\ Name(3) = "get_many"
    /\ hist[3].ret = RetMap([k \in {KeyB} |-> hist[1].call.value])
    /\ clock = MaxClock

(***************************************************************************)
(* SpecDecode: the table is shared with other writers, and holds a row for *)
(* KeyA whose bytes pickle.loads cannot decode in this process.  One       *)
(* caller writes KeyB and reads.                                           *)
(***************************************************************************)
Undecodable == <<"foreign", 0>>

ForeignRows == {Row(KeyA, Undecodable, e) : e \in {1, FOREVER_TIMEOUT}}

ScriptsDecode ==
    { <<"set", "get_many">>,
      <<"set", "get">>,
      <<"set_many", "get_many">> }

DecodeCalls ==
    {WriteCall("set", KeyB, v, t) : v \in Values, t \in Timeouts}
      \cup {SetManyCall([k \in {KeyB} |-> v], t) : v \in Values, t \in Timeouts}
      \cup CallsOf("get", ValidKeys) \cup CallsOf("get_many", ValidKeys)

InitDecode ==
    \E s \in ScriptsDecode : \E r \in ForeignRows : InitFrom(Alone(s), {r})

NextDecode ==
    \/ Tick
    \/ \E c \in Callers :
         \/ \E cl \in DecodeCalls : Invoke(c, cl)
         \/ GetSelect(c)
         \/ GetReturn(c)
         \/ GetManySelect(c)
         \/ GetManyReturn(c)
         \/ SetExecute(c)
         \/ SetManyExecute(c)

SpecDecode == InitDecode /\ [][NextDecode]_vars

\* The rows a get_many fetched and did not skip as expired, and those of
\* them that decode.
KeptRows(j) == {r \in hist[j].rows : ~(r.expires < hist[j].now)}
DecodableRows(j) == {r \in KeptRows(j) : r.value[1] = "pickle"}

\* C17.  In get_many, a stored entry whose bytes cannot be decoded does not
\* abort the other entries: the call returns a mapping that holds every live,
\* decodable entry among the requested keys.
C17_UndecodableDoesNotAbort ==
    \A j \in DOMAIN hist :
       Name(j) = "get_many" =>
          /\ hist[j].ret.kind = "map"
          /\ \A r \in DecodableRows(j) :
                /\ r.cache_key \in DOMAIN hist[j].ret.map
                /\ hist[j].ret.map[r.cache_key] = r.value[2]

\* C17, amended.  In get_many, a fetched entry that is not skipped as expired
\* and whose bytes cannot be decoded aborts the call: get_many raises the
\* decode error and returns no entry at all.  An undecodable entry that is
\* skipped as expired is never decoded, and the call then returns the
\* mapping of the other entries.
C17_UndecodableAborts ==
    \A j \in DOMAIN hist :
       Name(j) = "get_many" =>
          IF DecodableRows(j) # KeptRows(j)
          THEN hist[j].ret = Raise("DecodeError")
          ELSE /\ hist[j].ret.kind = "map"
               /\ DOMAIN hist[j].ret.map = {r.cache_key : r \in KeptRows(j)}
               /\ \A r \in KeptRows(j) :
                     hist[j].ret.map[r.cache_key] = r.value[2]

\* get_many of both keys fetched the undecodable row of KeyA and the live
\* entry just set for KeyB, and raised.
C17_Witness ==
    /\ Len(hist) = 2
    /\ Name(1) = "set"
    /\ Name(2) = "get_many"
    /\ hist[2].call.keys = ValidKeys
    /\ C2_FirstRow \in DecodableRows(2)
    /\ \E r \in KeptRows(2) : r.value = Undecodable
    /\ hist[2].ret = Raise("DecodeError")

(***************************************************************************)
(* SpecFaults: one caller runs every operation on a table that holds an    *)
(* undecodable row; a statement can fail.                                  *)
(***************************************************************************)
ScriptsFaults ==
    { <<"add", "get">>,
      <<"add", "get_many">>,
      <<"set", "has_key">>,
      <<"set_many", "delete">>,
      <<"delete_many", "clear">> }

InitFaults ==
    \E s \in ScriptsFaults : \E r \in ForeignRows : InitFrom(Alone(s), {r})

NextFaults ==
    \/ Tick
    \/ \E c \in Callers :
         \/ \E cl \in AllCalls(ValidKeys) : Invoke(c, cl)
         \/ GetSelect(c)
         \/ GetReturn(c)
         \/ GetManySelect(c)
         \/ GetManyReturn(c)
         \/ SetExecute(c)
         \/ AddNow(c)
         \/ AddExecute(c)
         \/ AddInsertId(c)
         \/ SetManyExecute(c)
         \/ DeleteExecute(c)
         \/ DeleteManyExecute(c)
         \/ HasKeySelect(c)
         \/ ClearExecute(c)
         \/ StatementFails(c)

SpecFaults == InitFaults /\ [][NextFaults]_vars

\* C18.  Every call holds its cursor only while it runs: a cursor is open
\* only inside the cursor block of a call in progress, and a caller whose
\* call has ended, by a normal return, a decode failure or a failed
\* statement, has no cursor open.
InCursorBlock(c) == pc[c] \in {"add_execute", "add_insert_id"}

C18_CursorReleased ==
    \A c \in Callers :
       /\ cursor[c] = 1 => InCursorBlock(c)
       /\ pc[c] = "idle" => cursor[c] = 0

\* An add ended with a failed statement, which ran with its cursor open, and
\* then a get ended with a decode failure; no cursor is open.
C18_Witness ==
    /\ Len(hist) = 2
    /\ Name(1) = "add"
    /\ hist[1].ret = Raise("StoreError")
    /\ Name(2) = "get"
    /\ hist[2].ret = Raise("DecodeError")
    /\ \A c \in Callers : pc[c] = "idle" /\ cursor[c] = 0

(***************************************************************************)
(* SpecInsertId: KeyA holds an entry that never expires, KeyB is absent.   *)
(* Two callers make an add, or a set on KeyA, and then an add, every       *)
(* further caller an add, concurrently; the adds are on either key, with   *)
(* no timeout.                                                             *)
(***************************************************************************)
OccupiedRow == Row(KeyA, _encode(1), FOREVER_TIMEOUT)

ScriptsInsertId(c) ==
    IF c <= 2 THEN {<<"add", "add">>, <<"set", "add">>} ELSE {<<"add">>}

InsertIdCalls(c) ==
    {WriteCall("add", k, c, TimeoutNone) : k \in ValidKeys}
      \cup {WriteCall("set", KeyA, c, TimeoutNone)}

InitInsertId ==
    \E td \in [Callers -> UNION {ScriptsInsertId(c) : c \in Callers}] :
       /\ \A c \in Callers : td[c] \in ScriptsInsertId(c)
       /\ InitFrom(td, {OccupiedRow})

\* No entry of this specification can expire, so the clock is left at rest.
NextInsertId ==
    \E c \in Callers :
      \/ \E cl \in InsertIdCalls(c) : Invoke(c, cl)
      \/ SetExecute(c)
      \/ AddNow(c)
      \/ AddExecute(c)
      \/ AddInsertId(c)

SpecInsertId == InitInsertId /\ [][NextInsertId]_vars

\* C19.  The boolean add returns reflects only the statement of that call.
\* Every add on the occupied key returns false and every add on the absent
\* key that finds it absent returns true, whatever the caller's connection
\* ran before (a rejected add, a set) and whatever statements other callers
\* run between the call's statement and its reading of the insert id: at most
\* one add on KeyB has returned true, when all calls have returned exactly
\* one has if there was any, and the table holds the value of that one.
AddsOn(k) == {i \in DOMAIN hist : Name(i) = "add" /\ hist[i].call.key = k}
AddsTrueOn(k) == {i \in AddsOn(k) : hist[i].ret = RetBool(TRUE)}
AllReturned == \A c \in Callers : pc[c] = "idle" /\ todo[c] = <<>>

C19_AddReportsOwnStatement ==
    /\ \A i \in AddsOn(KeyA) : hist[i].ret = RetBool(FALSE)
    /\ \A i \in AddsOn(KeyB) : hist[i].ret \in {RetBool(TRUE), RetBool(FALSE)}
    /\ Cardinality(AddsTrueOn(KeyB)) <= 1
    /\ \A i \in AddsTrueOn(KeyB) :
          /\ Row(KeyB, _encode(hist[i].call.value), FOREVER_TIMEOUT) \in table
          /\ \A j \in AddsOn(KeyB) : j < i => hist[j].caller # hist[i].caller
    /\ (AllReturned /\ AddsOn(KeyB) # {}) => AddsTrueOn(KeyB) # {}

\* Caller 1's add on the occupied key was rejected and its next add, on the
\* absent key, returned true; caller 2 made a set before caller 1's first
\* call returned, and its add on the occupied key was the last call to return.
C19_Witness ==
    /\ AllReturned
    /\ \E i, j \in DOMAIN hist :
         /\ i < j
         /\ hist[i].caller = 1 /\ hist[j].caller = 1
         /\ i \in AddsOn(KeyA)
         /\ hist[i].ret = RetBool(FALSE)
         /\ j \in AddsTrueOn(KeyB)
    /\ \E i, j \in DOMAIN hist :
         /\ i < j
         /\ hist[i].caller = 2 /\ hist[j].caller = 2
         /\ Name(i) = "set"
         /\ j \in AddsOn(KeyA)
         /\ hist[1].caller = 2
         /\ Len(hist) = j

(***************************************************************************)
(* SpecSameKey: the callers run set, add, delete, get and has_key calls on *)
(* KeyA concurrently: caller 1 a write and then any call, caller 2 one     *)
(* call.                                                                   *)
(***************************************************************************)
SameKeyOperations == {"set", "add", "delete", "get", "has_key"}

ScriptsSameKey(c) ==
    CASE c = 1 -> {<<n, m>> : n \in {"set", "add"}, m \in SameKeyOperations}
      [] c = 2 -> {<<n>> : n \in SameKeyOperations}
      [] OTHER -> {<<>>}

SameKeyCalls(c) ==
    {WriteCall(n, KeyA, c, t) : n \in {"set", "add"}, t \in Timeouts}
      \cup {KeyCall(n, KeyA) : n \in {"delete", "get", "has_key"}}

InitSameKey ==
    \E td \in [Callers -> UNION {ScriptsSameKey(c) : c \in Callers}] :
       /\ \A c \in Callers : td[c] \in ScriptsSameKey(c)
       /\ InitWith(td)

NextSameKey ==
    \/ Tick
    \/ \E c \in Callers :
         \/ \E cl \in SameKeyCalls(c) : Invoke(c, cl)
         \/ GetSelect(c)
         \/ GetReturn(c)
         \/ SetExecute(c)
         \/ AddNow(c)
         \/ AddExecute(c)
         \/ AddInsertId(c)
         \/ DeleteExecute(c)
         \/ HasKeySelect(c)

SpecSameKey == InitSameKey /\ [][NextSameKey]_vars

\* What one call does when it runs alone on the table tbl, with e the exp it
\* computed (set, add), nw the now it sampled in ticks (add) and ms the now
\* it sampled in milliseconds (get, has_key): the table it leaves and what
\* it returns.
Alone_Set(tbl, cl, e) ==
    [table |-> _set_query(tbl, cl.key, _encode(cl.value), e), ret |-> RetNone]

Alone_Add(tbl, cl, e, nw) ==
    LET res == _add_query(tbl, cl.key, _encode(cl.value), e, nw)
    IN [table |-> res.table, ret |-> RetBool(res.insert_id # DidNotInsert)]

Alone_Get(tbl, cl, ms) ==
    LET rs == _get_query(tbl, cl.key)
    IN [table |-> tbl,
        ret |-> IF rs = {} THEN RetDefault
                ELSE LET row == CHOOSE r \in rs : TRUE
                     IN IF ReadSkips(row, ms) THEN RetDefault
                        ELSE _decode(row.value)]

Alone_HasKey(tbl, cl, ms) ==
    [table |-> tbl, ret |-> RetBool(_has_key_query(tbl, cl.key, ms) # {})]

Alone_Delete(tbl, cl) ==
    [table |-> _delete_query(tbl, cl.key), ret |-> RetNone]

AloneOutcome(tbl, cl, e, nw, ms) ==
    CASE cl.name = "set" -> Alone_Set(tbl, cl, e)
      [] cl.name = "add" -> Alone_Add(tbl, cl, e, nw)
      [] cl.name = "get" -> Alone_Get(tbl, cl, ms)
      [] cl.name = "has_key" -> Alone_HasKey(tbl, cl, ms)
      [] cl.name = "delete" -> Alone_Delete(tbl, cl)

\* The calls of rem that can come next in a serial order: each caller's calls
\* stay in the order the caller made them.
NextInOrder(rem) ==
    {i \in rem : \A j \in rem : hist[j].caller = hist[i].caller => i <= j}

\* A serial execution may take its clock samples later than the concurrent
\* one did.
SerialHorizon == MaxClock + 2

\* Some serial execution of the calls hist[i], i \in rem, from table tbl at
\* time t or later, gives every call the value it returned and ends with the
\* table of the current state.  In a serial execution a call starts when the
\* call before it has returned: it takes its samples s1 (for exp) and s2 (for
\* now) no earlier than the samples of the calls before it.
RECURSIVE SerialFrom(_, _, _)
SerialFrom(rem, tbl, t) ==
    IF rem = {} THEN tbl = table
    ELSE \E i \in NextInOrder(rem) :
           \E s1 \in t..SerialHorizon : \E s2 \in s1..SerialHorizon :
              LET out == AloneOutcome(tbl, hist[i].call,
                                      get_backend_timeout(hist[i].call.timeout, s1),
                                      s2, NowMs(s2))
              IN /\ out.ret = hist[i].ret
                 /\ SerialFrom(rem \ {i}, out.table,
                               IF Name(i) = "delete" THEN t ELSE s2)

RECURSIVE SerialButExpiry(_, _, _)
SerialButExpiry(rem, tbl, t) ==
    IF rem = {} THEN {r.value : r \in tbl} = {r.value : r \in table}
    ELSE \E i \in NextInOrder(rem) :
           \E s1 \in t..SerialHorizon : \E s2 \in s1..SerialHorizon :
              LET out == AloneOutcome(tbl, hist[i].call,
                                      get_backend_timeout(hist[i].call.timeout, s1),
                                      s2, NowMs(s2))
              IN /\ out.ret = hist[i].ret
                 /\ SerialButExpiry(rem \ {i}, out.table,
                                    IF Name(i) = "delete" THEN t ELSE s2)

C20_SerializableButExpiry ==
    AllReturned => SerialButExpiry(DOMAIN hist, {}, 0)

\* Some order of the calls hist[i], i \in rem, each run alone from table tbl
\* with the exp and now it sampled in the concurrent execution, gives every
\* call the value it returned and ends with the table of the current state.
RECURSIVE SerialWithOwnSamples(_, _)
SerialWithOwnSamples(rem, tbl) ==
    IF rem = {} THEN tbl = table
    ELSE \E i \in NextInOrder(rem) :
           LET out == AloneOutcome(tbl, hist[i].call, hist[i].exp,
                                   hist[i].now, ReadNow(i))
           IN /\ out.ret = hist[i].ret
              /\ SerialWithOwnSamples(rem \ {i}, out.table)

====
